---- MODULE Spec2Model ----
(***************************************************************************)
(* A model of matrix-discord-bridge: the WebhookManager (webhooks.go), the *)
(* MessageManager (messages.go) and the three event handlers registered in *)
(* main (main.go).                                                         *)
(*                                                                         *)
(* Go maps are modelled as sets of <<key, value>> pairs with explicit      *)
(* lookup and assignment operators; files as records holding the JSON      *)
(* value last written; every external call (Discord or Matrix API, file    *)
(* write) has its outcome chosen nondeterministically.                     *)
(***************************************************************************)
EXTENDS Integers, Sequences, FiniteSets, TLC

(***************************************************************************)
(* Bounds of the model.                                                    *)
(***************************************************************************)
\* Events (Matrix and Discord together) the bridge handles in one run.
MaxEvents == 2
\* Identifiers per kind available to direct callers of MessageManager.Add.
NumStoreIds == 2
\* Concurrent callers of WebhookManager.Get in the component specification.
NumCallers == 2
\* Get calls each such caller makes.
MaxCallsPerCaller == 2

(***************************************************************************)
(* Go maps.                                                                *)
(***************************************************************************)
MapKeys(m) == {e[1] : e \in m}

MapHas(m, k) == \E e \in m : e[1] = k

\* v, ok := m[k] with ok = TRUE
MapAt(m, k) == (CHOOSE e \in m : e[1] = k)[2]

\* A faulty assignment that keeps the entry the key had (used to test C5).
MapPutNoReplace(m, k, v) == m \cup {<<k, v>>}

\* m[k] = v
MapPut(m, k, v) == {e \in m : e[1] # k} \cup {<<k, v>>}

MapValues(m) == {e[2] : e \in m}

(***************************************************************************)
(* Files: os.ReadFile / os.WriteFile on bridgedata/*.json.                 *)
(***************************************************************************)
NoFile == [state |-> "absent", data |-> {}]

Corrupt == [state |-> "corrupt", data |-> {}]

ValidFile(json) == [state |-> "valid", data |-> json]

\* os.WriteFile(file, bytes, perm): the file after the call.  The call
\* truncates and then writes, so a failed call leaves the old file (open
\* failed) or a truncated one (write failed).
WriteFileOutcomes(old, json) ==
    { [ok |-> TRUE, file |-> ValidFile(json)],
      [ok |-> FALSE, file |-> old],
      [ok |-> FALSE, file |-> Corrupt] }

(***************************************************************************)
(* Identifiers.  Discord and the homeserver hand out identifiers that are  *)
(* unique per object; the n-th object of a kind gets the n-th identifier.  *)
(***************************************************************************)
WebhookIdOf(n) == "w" \o ToString(n)

WebhookTokenOf(n) == "t" \o ToString(n)

\* Discord channel ids and Matrix usernames that callers pass to Get.
Channels == {"c1", "c2"}

\* config.Matrix.Username, the bridge's own Matrix account
BotUsername == "@bot"

Usernames == {BotUsername, "@alice", "@bob"}

(***************************************************************************)
(* WebhookManager (webhooks.go).                                           *)
(***************************************************************************)
VARIABLES
    webhooks,       \* m.webhooks: map key -> WebhookInfo
    whFile,         \* the file m.file
    nWebhooks,      \* webhooks Discord has created so far
    whWriteFailed,  \* history: some write of m.file has failed
    get,            \* per goroutine inside Get: its position and local variables
    crashed         \* the Go runtime has ended the process (panic / fatal error)

WebhookInfo(id, token) == [ID |-> id, Token |-> token]

ZeroWebhookInfo == WebhookInfo("", "")

\* channel+" | "+username
WebhookKey(channel, username) == channel \o " | " \o username

\* json.Marshal(m.webhooks): an object of {"id":..., "token":...} objects
MarshalWebhooks(m) == {<<e[1], [id |-> e[2].ID, token |-> e[2].Token]>> : e \in m}

\* A faulty decoder that loses the token (used to test C8).
UnmarshalWebhooksDropToken(json) == {<<e[1], WebhookInfo(e[2].id, "")>> : e \in json}

\* json.Unmarshal(bytes, &webhooks)
UnmarshalWebhooks(json) == {<<e[1], WebhookInfo(e[2].id, e[2].token)>> : e \in json}

\* NewWebhookManager(dg, file): the map of the new manager.  A file that
\* cannot be read gives an empty map; a file that does not parse gives an
\* error, on which main panics.
NewWebhookManager(file) ==
    CASE file.state = "absent"  -> [err |-> FALSE, webhooks |-> {}]
      [] file.state = "corrupt" -> [err |-> TRUE, webhooks |-> {}]
      [] file.state = "valid"   -> [err |-> FALSE, webhooks |-> UnmarshalWebhooks(file.data)]

\* WebhookManager.Has(id) on the map m
Has(m, id) == \E e \in m : e[2].ID = id

\* m.lock.RLock(); webhook, ok := m.webhooks[key]; m.lock.RUnlock()
Lookup(m, key) ==
    [ok |-> MapHas(m, key),
     webhook |-> IF MapHas(m, key) THEN MapAt(m, key) ELSE ZeroWebhookInfo]

\* webhook = WebhookInfo{ID: webhookObj.ID, Token: webhookObj.Token} for the
\* webhook Discord creates when n exist
Created(n) == WebhookInfo(WebhookIdOf(n + 1), WebhookTokenOf(n + 1))

\* m.lock.Lock(); m.webhooks[key] = webhook; m.lock.Unlock()
Stored(m, key, webhook) == MapPut(m, key, webhook)

\* save(), given the bytes json.Marshal returned (it cannot fail on a map of
\* strings): return os.WriteFile(m.file, bytes, os.ModePerm)
Saved(file, bytes) == WriteFileOutcomes(file, bytes)

GetResult(id, token, err, requested, m, file, n, failed) ==
    [id |-> id, token |-> token, err |-> err, requested |-> requested,
     webhooks |-> m, whFile |-> file, nWebhooks |-> n, whWriteFailed |-> failed]

\* A faulty Get that never looks into the map (used to test C18).
GetAlwaysCreates(m, file, n, failed, channel, username) ==
    LET key == WebhookKey(channel, username)
        w == Created(n)
    IN {GetResult(w.ID, w.Token, FALSE, TRUE, Stored(m, key, w), out.file, n + 1,
                  failed \/ ~out.ok) :
            out \in Saved(file, MarshalWebhooks(Stored(m, key, w)))}

\* WebhookManager.Get(channel, username) run from its first line to its
\* return with no other Get beside it: what it can return and leave behind.
\* A failed save is only printed.
Get(m, file, n, failed, channel, username) ==
    LET key == WebhookKey(channel, username)
        found == Lookup(m, key)
        w == Created(n)
    IN IF found.ok
       THEN {GetResult(found.webhook.ID, found.webhook.Token, FALSE, FALSE,
                       m, file, n, failed)}
       ELSE {GetResult("", "", TRUE, TRUE, m, file, n, failed)}
            \cup {GetResult(w.ID, w.Token, FALSE, TRUE, Stored(m, key, w), out.file,
                            n + 1, failed \/ ~out.ok) :
                     out \in Saved(file, MarshalWebhooks(Stored(m, key, w)))}

\* The goroutines that may be inside Get.
Callers == 1..NumCallers

\* A goroutine that is not inside Get.
IdleFrame ==
    [pc |-> "idle", key |-> "", webhook |-> ZeroWebhookInfo, ok |-> FALSE,
     bytes |-> {}, id |-> "", token |-> "", err |-> FALSE, calls |-> 0]

(***************************************************************************)
(* MessageManager (messages.go).                                           *)
(***************************************************************************)
VARIABLES
    discordToMessage,   \* m.discordToMessage: discord message ID -> *MessageInfo
    matrixToMessage,    \* m.matrixToMessage: matrix event ID -> *MessageInfo
    msgFile,            \* the file m.file
    reused,             \* history: Add was called with an ID already recorded
    msgWriteFailed      \* history: some write of m.file has failed

\* The fields of MessageInfo that the program ever assigns; ChannelID,
\* GuildID, Content, Author and AvatarURL stay "".
MessageInfo(discordID, webhookID, webhookToken, roomID, matrixID) ==
    [DiscordID |-> discordID, WebhookID |-> webhookID, WebhookToken |-> webhookToken,
     RoomID |-> roomID, MatrixID |-> matrixID]

\* A nil *MessageInfo.
NilMessage == [nil |-> TRUE]

\* json.Marshal(m.discordToMessage)
MarshalMessages(m) ==
    {<<e[1], [discord_id |-> e[2].DiscordID, webhook_id |-> e[2].WebhookID,
              webhook_token |-> e[2].WebhookToken, room_id |-> e[2].RoomID,
              matrix_id |-> e[2].MatrixID]>> : e \in m}

\* json.Unmarshal(body, &messageList)
UnmarshalMessages(json) ==
    {<<e[1], MessageInfo(e[2].discord_id, e[2].webhook_id, e[2].webhook_token,
                         e[2].room_id, e[2].matrix_id)>> : e \in json}

\* A faulty constructor that leaves the reverse index empty (used to test
\* C21).
RebuiltMapsDiscordOnly(messageList) ==
    {[discordToMessage |-> {<<i.DiscordID, i>> : i \in MapValues(messageList)},
      matrixToMessage |-> {}]}

\* The maps a range over messageList can build: every record is stored under
\* its own DiscordID and MatrixID, in the map's iteration order, so of two
\* records with the same ID the one visited last stays.
RebuiltMaps(messageList) ==
    LET infos == MapValues(messageList)
        Pick(keyOf(_)) ==
            {m \in SUBSET {<<keyOf(i), i>> : i \in infos} :
                /\ MapKeys(m) = {keyOf(i) : i \in infos}
                /\ \A e1, e2 \in m : e1[1] = e2[1] => e1 = e2}
        DiscordKey(i) == i.DiscordID
        MatrixKey(i) == i.MatrixID
    IN {[discordToMessage |-> d, matrixToMessage |-> m] :
            d \in Pick(DiscordKey), m \in Pick(MatrixKey)}

EmptyMaps == [discordToMessage |-> {}, matrixToMessage |-> {}]

\* NewMessageManager(file): the managers the constructor can return (none
\* when the file does not parse: main panics on the error).
NewMessageManager(file) ==
    CASE file.state = "absent"  -> {EmptyMaps}
      [] file.state = "corrupt" -> {}
      [] file.state = "valid"   -> RebuiltMaps(UnmarshalMessages(file.data))

\* MessageManager.GetMatrix(matrixID)
GetMatrix(matrixID) ==
    IF MapHas(matrixToMessage, matrixID) THEN MapAt(matrixToMessage, matrixID)
    ELSE NilMessage

\* MessageManager.GetDiscord(discordID)
GetDiscord(discordID) ==
    IF MapHas(discordToMessage, discordID) THEN MapAt(discordToMessage, discordID)
    ELSE NilMessage

\* A faulty Add that keys both maps by the Matrix ID (used to test C6).
AddKeyedByMatrixOnly(msg) ==
    /\ discordToMessage' = MapPut(discordToMessage, msg.MatrixID, msg)
    /\ matrixToMessage' = MapPut(matrixToMessage, msg.MatrixID, msg)
    /\ \E out \in WriteFileOutcomes(msgFile, MarshalMessages(discordToMessage')) :
         /\ msgFile' = out.file
         /\ msgWriteFailed' = (msgWriteFailed \/ ~out.ok)
    /\ reused' = (reused \/ MapHas(discordToMessage, msg.DiscordID)
                         \/ MapHas(matrixToMessage, msg.MatrixID))

\* A faulty Add that fills only one map (used to test C7).
AddToDiscordMapOnly(msg) ==
    /\ discordToMessage' = MapPut(discordToMessage, msg.DiscordID, msg)
    /\ matrixToMessage' = matrixToMessage
    /\ \E out \in WriteFileOutcomes(msgFile, MarshalMessages(discordToMessage')) :
         /\ msgFile' = out.file
         /\ msgWriteFailed' = (msgWriteFailed \/ ~out.ok)
    /\ reused' = (reused \/ MapHas(discordToMessage, msg.DiscordID)
                         \/ MapHas(matrixToMessage, msg.MatrixID))

\* MessageManager.Add(msg), with save(): everything happens under m.lock,
\* and the result of os.WriteFile is dropped.
Add(msg) ==
    /\ discordToMessage' = MapPut(discordToMessage, msg.DiscordID, msg)
    /\ matrixToMessage' = MapPut(matrixToMessage, msg.MatrixID, msg)
    /\ \E out \in WriteFileOutcomes(msgFile, MarshalMessages(discordToMessage')) :
         /\ msgFile' = out.file
         /\ msgWriteFailed' = (msgWriteFailed \/ ~out.ok)
    /\ reused' = (reused \/ MapHas(discordToMessage, msg.DiscordID)
                         \/ MapHas(matrixToMessage, msg.MatrixID))

(***************************************************************************)
(* main (main.go): configuration and the values events are drawn from.     *)
(***************************************************************************)
\* config.Bridge: discord channel ID -> matrix room ID ("c2" is not bridged)
Bridge == {<<"c1", "r1">>}

\* for disc, matrix := range config.Bridge { matrixToDiscord[matrix] = disc }
MatrixToDiscord == {<<e[2], e[1]>> : e \in Bridge}

\* m[k] on a map of strings: "" when the key is missing
StringAt(m, k) == IF MapHas(m, k) THEN MapAt(m, k) ELSE ""

Rooms == {"r1", "r2"}

\* startTime := time.Now().UnixMilli()
StartTime == 2

Timestamps == (StartTime - 1)..(StartTime + 1)

\* dg.State.User.ID, the bridge's own Discord account
BotUserID == "bot"

\* A Discord user that is neither the bridge nor a webhook.
DiscordUsers == {"u1"}

TextTypes == {"m.text", "m.notice", "m.emote"}

MediaTypes == {"m.image", "m.audio", "m.video"}

MsgTypes == TextTypes \cup MediaTypes \cup {"m.file", "m.location"}

\* Event IDs of the events users send on Matrix.
MatrixEventIdOf(n) == "$m" \o ToString(n)

\* Event IDs the homeserver gives to the events the bridge sends.
SentEventIdOf(n) == "$b" \o ToString(n)

DiscordMessageIdOf(n) == "d" \o ToString(n)

\* 64*1024, the largest attachment that is uploaded to Matrix
AttachmentLimit == 64 * 1024

Attachment(size, contentType) == [Size |-> size, ContentType |-> contentType]

\* m.Message.Attachments of the Discord messages delivered
AttachmentLists ==
    {<<>>, <<Attachment(AttachmentLimit, "text/plain"),
             Attachment(AttachmentLimit, "image/png")>>}
    \cup {<<Attachment(sz, ct)>> :
            sz \in {AttachmentLimit, AttachmentLimit + 1},
            ct \in {"image/png", "text/plain"}}

VARIABLES
    nEvents,    \* events handled so far
    last,       \* the event handled last, and what its handler did
    net         \* the two platforms: events on their way to the bridge, and
                \* calls of the bridge that have not returned

vars ==
    <<webhooks, whFile, nWebhooks, whWriteFailed, get, crashed,
      discordToMessage, matrixToMessage, msgFile, reused, msgWriteFailed,
      nEvents, last, net>>

identityVars == <<webhooks, whFile, nWebhooks, whWriteFailed>>

storeVars == <<discordToMessage, matrixToMessage, msgFile, reused, msgWriteFailed>>

notIdentity == <<storeVars, nEvents, last, net>>

\* A call of the Discord or Matrix API made by a handler.
NoCall ==
    [api |-> "", id |-> "", token |-> "", message |-> "", room |-> "",
     relatesTo |-> "", ok |-> FALSE]

\* dg.WebhookCreate / dg.WebhookExecute / dg.WebhookMessageEdit
DiscordCall(api, id, token, message, ok) ==
    [NoCall EXCEPT !.api = api, !.id = id, !.token = token, !.message = message,
                   !.ok = ok]

\* mg.SendFormattedText / mg.UploadLink / mg.SendMessageEvent
MatrixCall(api, room, relatesTo, ok) ==
    [NoCall EXCEPT !.api = api, !.room = room, !.relatesTo = relatesTo, !.ok = ok]

NoMatrixEvent ==
    [ID |-> "", Timestamp |-> 0, Sender |-> "", RoomID |-> "", msgtype |-> "",
     relType |-> "", relatesTo |-> "", hasNewContent |-> FALSE, hasInfo |-> FALSE]

\* The m.room.message events that can arrive when n events have been handled.
\* The replace branch never reads the outer msgtype and only the media
\* branches read "info", so these fields vary only where they are read.
MatrixEvents(n) ==
    LET known == MapKeys(matrixToMessage) \cup {MatrixEventIdOf(0)}
        head == {[NoMatrixEvent EXCEPT !.ID = MatrixEventIdOf(n + 1), !.Timestamp = ts,
                                       !.Sender = s, !.RoomID = r] :
                    ts \in Timestamps, s \in Usernames, r \in Rooms}
    IN {[h EXCEPT !.msgtype = t] : h \in head, t \in TextTypes \cup {"m.location"}}
       \cup {[h EXCEPT !.msgtype = t, !.hasInfo = i] :
                h \in head, t \in MediaTypes \cup {"m.file"}, i \in BOOLEAN}
       \cup {[h EXCEPT !.msgtype = "m.text", !.relType = "m.replace",
                       !.relatesTo = o, !.hasNewContent = c] :
                h \in head, o \in known, c \in BOOLEAN}

NoDiscordEvent ==
    [ID |-> "", hasAuthor |-> FALSE, AuthorID |-> "", ChannelID |-> "",
     Content |-> "", Attachments |-> <<>>]

\* Webhook IDs that messages on Discord can carry as their author: the
\* webhooks of this bridge, and one that may not be in its file.
WebhookAuthors == {e[2].ID : e \in webhooks} \cup {WebhookIdOf(0)}

\* The MessageCreate events that can arrive when n events have been handled.
\* A message posted through a webhook comes with the ID WebhookExecute
\* returned for it.
DiscordCreateEvents(n) ==
    LET fresh == DiscordMessageIdOf(n + 1)
        Posted(a) == {i.DiscordID : i \in {r \in MapValues(discordToMessage) :
                                              r.WebhookID = a}}
    IN {[NoDiscordEvent EXCEPT !.ID = fresh, !.hasAuthor = TRUE, !.AuthorID = a,
                               !.ChannelID = ch, !.Content = c, !.Attachments = at] :
           a \in {BotUserID} \cup DiscordUsers, ch \in Channels,
           c \in {"", "hi"}, at \in AttachmentLists}
       \cup UNION {{[NoDiscordEvent EXCEPT !.ID = id, !.hasAuthor = TRUE,
                        !.AuthorID = a, !.ChannelID = ch, !.Content = "hi"] :
                       id \in {fresh} \cup Posted(a), ch \in Channels} :
                   a \in WebhookAuthors}

\* The MessageUpdate events that can arrive: for a recorded message or for
\* one that is not recorded; an update may come without an author.  A
\* message recorded in this run is in a bridged channel; one of an earlier
\* run may be in a channel that config.Bridge has stopped mapping since.
DiscordUpdateEvents ==
    LET AuthorOf(id) ==
            IF MapHas(discordToMessage, id) /\ MapAt(discordToMessage, id).WebhookID # ""
            THEN {MapAt(discordToMessage, id).WebhookID} ELSE DiscordUsers
        ChannelOf(id) ==
            IF id = DiscordMessageIdOf(0) THEN Channels ELSE MapKeys(Bridge)
    IN UNION {{[NoDiscordEvent EXCEPT !.ID = id, !.hasAuthor = h,
                    !.AuthorID = IF h THEN a ELSE "", !.ChannelID = ch,
                    !.Content = "hi"] :
                  a \in AuthorOf(id), h \in BOOLEAN, ch \in ChannelOf(id)} :
              id \in MapKeys(discordToMessage) \cup {DiscordMessageIdOf(0)}}

(***************************************************************************)
(* What a handler does with one event: the API calls it makes in order,    *)
(* the record it passes to MessageManager.Add (or none), whether it        *)
(* panics, and the WebhookManager it leaves behind.                        *)
(***************************************************************************)
\* What a handler that has not called Get has got from it.
NoReturn == [id |-> "", token |-> "", err |-> FALSE]

\* A handler run that does not call Get (got: Get was called; ret: what it
\* returned).
Outcome(calls, add, crash) ==
    [calls |-> calls, add |-> add, crash |-> crash, got |-> FALSE, ret |-> NoReturn,
     webhooks |-> webhooks, whFile |-> whFile, nWebhooks |-> nWebhooks,
     whWriteFailed |-> whWriteFailed]

\* A handler run that has called Get, with result g.
OutcomeAfterGet(g, calls, add, crash) ==
    [calls |-> calls, add |-> add, crash |-> crash, got |-> TRUE,
     ret |-> [id |-> g.id, token |-> g.token, err |-> g.err],
     webhooks |-> g.webhooks, whFile |-> g.whFile, nWebhooks |-> g.nWebhooks,
     whWriteFailed |-> g.whWriteFailed]

Ignored == Outcome(<<>>, NilMessage, FALSE)

\* A faulty filter that also drops events stamped startTime (used to test C4).
MatrixFilterAtOrBefore(ev) ==
    \/ ev.Timestamp <= StartTime
    \/ ev.Sender = BotUsername
    \/ StringAt(MatrixToDiscord, ev.RoomID) = ""

\* A faulty filter that lets the bridge's own messages through (used to test
\* C15).
MatrixFilterNoSelfCheck(ev) ==
    \/ ev.Timestamp < StartTime
    \/ StringAt(MatrixToDiscord, ev.RoomID) = ""

\* main.go:183-194: the three returns at the head of the handler
MatrixFilter(ev) ==
    \/ ev.Timestamp < StartTime
    \/ ev.Sender = BotUsername
    \/ StringAt(MatrixToDiscord, ev.RoomID) = ""

\* relatesTo, ok := ev.Content["m.relates_to"].(map[string]interface{});
\* ok && relatesTo["rel_type"] == "m.replace"
IsReplace(ev) == ev.relType = "m.replace"

\* A faulty replace branch that posts a new message (used to test C2).
MatrixReplaceByNewMessage(ev) ==
    LET messageInfo == GetMatrix(ev.relatesTo)
    IN IF messageInfo = NilMessage \/ ~ev.hasNewContent
       THEN {Ignored}
       ELSE {Outcome(<<DiscordCall("WebhookExecute", messageInfo.WebhookID,
                                   messageInfo.WebhookToken, "", ok)>>,
                     NilMessage, FALSE) : ok \in BOOLEAN}

\* A faulty replace branch that relays an unknown edit (used to test C3).
MatrixReplaceUnknownAsNew(ev) ==
    LET messageInfo == GetMatrix(ev.relatesTo)
    IN IF messageInfo = NilMessage
       THEN {Outcome(<<DiscordCall("WebhookExecute", "", "", "", FALSE)>>,
                     NilMessage, FALSE)}
       ELSE IF ~ev.hasNewContent
       THEN {Ignored}
       ELSE {Outcome(<<DiscordCall("WebhookMessageEdit", messageInfo.WebhookID,
                                   messageInfo.WebhookToken, messageInfo.DiscordID,
                                   ok)>>,
                     NilMessage, FALSE) : ok \in BOOLEAN}

\* A faulty replace branch that records the edit event as a relayed message
\* (used to test C22).
MatrixReplaceRecordsEdit(ev) ==
    LET messageInfo == GetMatrix(ev.relatesTo)
    IN IF messageInfo = NilMessage
       THEN {Ignored}
       ELSE IF ~ev.hasNewContent
       THEN {Ignored}
       ELSE {Outcome(<<DiscordCall("WebhookMessageEdit", messageInfo.WebhookID,
                                   messageInfo.WebhookToken, messageInfo.DiscordID,
                                   ok)>>,
                     IF ok THEN MessageInfo(messageInfo.DiscordID, messageInfo.WebhookID,
                                            messageInfo.WebhookToken, ev.RoomID, ev.ID)
                     ELSE NilMessage,
                     FALSE) : ok \in BOOLEAN}

\* main.go:198-213: the replace branch
MatrixReplace(ev) ==
    LET messageInfo == GetMatrix(ev.relatesTo)
    IN IF messageInfo = NilMessage
       THEN {Ignored}
       ELSE IF ~ev.hasNewContent
       THEN {Ignored}
       ELSE {Outcome(<<DiscordCall("WebhookMessageEdit", messageInfo.WebhookID,
                                   messageInfo.WebhookToken, messageInfo.DiscordID,
                                   ok)>>,
                     NilMessage, FALSE) : ok \in BOOLEAN}

\* The creation request Get has made, if any.
CreateCalls(g) ==
    IF g.requested THEN <<DiscordCall("WebhookCreate", "", "", "", ~g.err)>> ELSE <<>>

\* dg.WebhookExecute(webhookId, webhookToken, true, ...) failing
ExecuteFails(g) ==
    Append(CreateCalls(g), DiscordCall("WebhookExecute", g.id, g.token, "", FALSE))

\* dg.WebhookExecute(webhookId, webhookToken, true, ...) returning message id
ExecuteReturns(g, id) ==
    Append(CreateCalls(g), DiscordCall("WebhookExecute", g.id, g.token, id, TRUE))

\* main.go:223-228 and 277-283: the text branch keeps the message returned
\* and records it.  With the empty credential left by a failed Get there is
\* no webhook to execute, and the call fails.
MatrixText(ev, g, id) ==
    {OutcomeAfterGet(g, ExecuteFails(g), NilMessage, FALSE)}
    \cup (IF g.id = "" THEN {}
          ELSE {OutcomeAfterGet(g, ExecuteReturns(g, id),
                    MessageInfo(id, g.id, g.token, ev.RoomID, ev.ID), FALSE)})

\* main.go:230-249 and 264-273: the file branches drop the message returned.
\* "info" missing fails the type assertion (a panic).
MatrixFileSend(ev, g, id) ==
    IF ~ev.hasInfo
    THEN {OutcomeAfterGet(g, CreateCalls(g), NilMessage, TRUE)}
    ELSE {OutcomeAfterGet(g, ExecuteFails(g), NilMessage, FALSE)}
         \cup (IF g.id = "" THEN {}
               ELSE {OutcomeAfterGet(g, ExecuteReturns(g, id), NilMessage, FALSE)})

\* main.go:229-249.  getContent (an HTTP GET) may fail; its error is printed
\* and WebhookExecute is called with the nil Reader, which the library cannot
\* send: it fails or panics.
MatrixMedia(ev, g, id) ==
    IF ~ev.hasInfo
    THEN {OutcomeAfterGet(g, CreateCalls(g), NilMessage, TRUE)}
    ELSE MatrixFileSend(ev, g, id)
         \cup {OutcomeAfterGet(g, ExecuteFails(g), NilMessage, crash) :
                  crash \in BOOLEAN}

\* main.go:250-274: m.file is sent only if getContent succeeded
MatrixFile(ev, g, id) ==
    {OutcomeAfterGet(g, CreateCalls(g), NilMessage, FALSE)}
    \cup MatrixFileSend(ev, g, id)

\* main.go:215-283: the new-relay branch.  An error of Get is only printed.
MatrixRelay(ev, n) ==
    UNION {CASE ev.msgtype \in TextTypes  -> MatrixText(ev, g, DiscordMessageIdOf(n + 1))
             [] ev.msgtype \in MediaTypes -> MatrixMedia(ev, g, DiscordMessageIdOf(n + 1))
             [] ev.msgtype = "m.file"     -> MatrixFile(ev, g, DiscordMessageIdOf(n + 1))
             [] OTHER -> {OutcomeAfterGet(g, CreateCalls(g), NilMessage, FALSE)} :
           g \in Get(webhooks, whFile, nWebhooks, whWriteFailed,
                     StringAt(MatrixToDiscord, ev.RoomID), ev.Sender)}

\* The m.room.message handler (main.go:182-285) on ev, the n+1st event.
MatrixHandler(ev, n) ==
    IF MatrixFilter(ev) THEN {Ignored}
    ELSE IF IsReplace(ev) THEN MatrixReplace(ev)
    ELSE MatrixRelay(ev, n)

\* strings.HasPrefix(attachment.ContentType, "image/")
IsImage(contentType) == contentType = "image/png"

\* main.go:297-304: the text content is sent if there is any; ev is the
\* response, nil on an error.
ContentSends(m, roomID, id) ==
    IF m.Content = ""
    THEN {[calls |-> <<>>, ev |-> ""]}
    ELSE {[calls |-> <<MatrixCall("SendFormattedText", roomID, "", TRUE)>>, ev |-> id],
          [calls |-> <<MatrixCall("SendFormattedText", roomID, "", FALSE)>>, ev |-> ""]}

\* main.go:306-355: the attachments.  One attachment of at most 64 KiB is
\* uploaded and sent as m.image or m.file; if the upload fails the error is
\* printed, upload is nil and upload.ContentURI panics.  Otherwise a table of
\* links is sent.  The responses are dropped.
AttachmentSends(m, roomID) ==
    IF Len(m.Attachments) = 1 /\ m.Attachments[1].Size <= AttachmentLimit
    THEN {[calls |-> <<MatrixCall("UploadLink", "", "", FALSE)>>, crash |-> TRUE]}
         \cup {[calls |-> <<MatrixCall("UploadLink", "", "", TRUE),
                            MatrixCall("SendMessageEvent", roomID, "", ok)>>,
                crash |-> FALSE] : ok \in BOOLEAN}
    ELSE IF Len(m.Attachments) # 0
    THEN {[calls |-> <<MatrixCall("SendFormattedText", roomID, "", ok)>>,
           crash |-> FALSE] : ok \in BOOLEAN}
    ELSE {[calls |-> <<>>, crash |-> FALSE]}

\* The MessageCreate handler (main.go:286-364) on m, the n+1st event.
DiscordCreate(m, n) ==
    LET roomID == StringAt(Bridge, m.ChannelID)
    IN IF m.AuthorID = BotUserID \/ Has(webhooks, m.AuthorID)
       THEN {Ignored}
       ELSE IF roomID = ""
       THEN {Ignored}
       ELSE {Outcome(c.calls \o a.calls,
                     IF c.ev # "" /\ ~a.crash
                     THEN MessageInfo(m.ID, "", "", roomID, c.ev) ELSE NilMessage,
                     a.crash) :
                c \in ContentSends(m, roomID, SentEventIdOf(n + 1)),
                a \in AttachmentSends(m, roomID)}

\* The MessageUpdate handler (main.go:365-383) on m.  For a recorded message
\* it reads m.Author.Username, which panics when the update has no author;
\* the result of SendMessageEvent is dropped.
DiscordUpdate(m) ==
    LET messageInfo == GetDiscord(m.ID)
    IN IF messageInfo = NilMessage
       THEN {Ignored}
       ELSE IF ~m.hasAuthor
       THEN {Outcome(<<>>, NilMessage, TRUE)}
       ELSE {Outcome(<<MatrixCall("SendMessageEvent", messageInfo.RoomID,
                                  messageInfo.MatrixID, ok)>>,
                     NilMessage, FALSE) : ok \in BOOLEAN}

(***************************************************************************)
(* The state after main has built the two managers (main.go:170-178): on a *)
(* first run there are no files; on a later run the files hold what an     *)
(* earlier run relayed.                                                    *)
(***************************************************************************)
EarlierWebhooks ==
    {<<WebhookKey("c1", "@alice"), WebhookInfo(WebhookIdOf(0), WebhookTokenOf(0))>>}

EarlierMessages ==
    {<<DiscordMessageIdOf(0),
       MessageInfo(DiscordMessageIdOf(0), WebhookIdOf(0), WebhookTokenOf(0),
                   "r1", MatrixEventIdOf(0))>>}

InitFiles ==
    {[webhooks |-> NoFile, messages |-> NoFile],
     [webhooks |-> ValidFile(MarshalWebhooks(EarlierWebhooks)),
      messages |-> ValidFile(MarshalMessages(EarlierMessages))]}

\* Nothing is on its way and no call is outstanding.  inbox: the events not
\* yet handed to a handler; users: how many events users have authored;
\* sends: the send and edit calls made; stalled: the handler runs stuck in
\* a call that never returns.
NoTraffic == [inbox |-> {}, users |-> 0, sends |-> 0, stalled |-> {}]

NoEvent ==
    [handler |-> "", mev |-> NoMatrixEvent, dev |-> NoDiscordEvent,
     calls |-> <<>>, add |-> NilMessage, got |-> FALSE, ret |-> NoReturn]

Init ==
    /\ \E files \in InitFiles :
         /\ whFile = files.webhooks
         /\ msgFile = files.messages
         /\ webhooks = NewWebhookManager(files.webhooks).webhooks
         /\ \E maps \in NewMessageManager(files.messages) :
              /\ discordToMessage = maps.discordToMessage
              /\ matrixToMessage = maps.matrixToMessage
    /\ nWebhooks = 0
    /\ whWriteFailed = FALSE
    /\ get = [c \in Callers |-> IdleFrame]
    /\ crashed = FALSE
    /\ reused = FALSE
    /\ msgWriteFailed = FALSE
    /\ nEvents = 0
    /\ last = NoEvent
    /\ net = NoTraffic

(***************************************************************************)
(* The bridge: each event is handled from the first line of its handler to *)
(* the return.                                                             *)
(***************************************************************************)
\* The handler has run with outcome r.
Handled(handler, mev, dev, r) ==
    /\ webhooks' = r.webhooks
    /\ whFile' = r.whFile
    /\ nWebhooks' = r.nWebhooks
    /\ whWriteFailed' = r.whWriteFailed
    /\ crashed' = r.crash
    /\ IF r.add # NilMessage THEN Add(r.add) ELSE UNCHANGED storeVars
    /\ nEvents' = nEvents + 1
    /\ last' = [handler |-> handler, mev |-> mev, dev |-> dev, calls |-> r.calls,
                add |-> r.add, got |-> r.got, ret |-> r.ret]
    /\ UNCHANGED get

\* syncer.OnEventType("m.room.message", ...) is called with ev
MatrixMessage(ev) ==
    /\ ~crashed
    /\ nEvents < MaxEvents
    /\ \E r \in MatrixHandler(ev, nEvents) :
         Handled("m.room.message", ev, NoDiscordEvent, r)
    /\ UNCHANGED net

\* the MessageCreate handler is called with m
MessageCreate(m) ==
    /\ ~crashed
    /\ nEvents < MaxEvents
    /\ \E r \in DiscordCreate(m, nEvents) :
         Handled("MessageCreate", NoMatrixEvent, m, r)
    /\ UNCHANGED net

\* the MessageUpdate handler is called with m
MessageUpdate(m) ==
    /\ ~crashed
    /\ nEvents < MaxEvents
    /\ \E r \in DiscordUpdate(m) :
         Handled("MessageUpdate", NoMatrixEvent, m, r)
    /\ UNCHANGED net

Next ==
    \/ \E ev \in MatrixEvents(nEvents) : MatrixMessage(ev)
    \/ \E m \in DiscordCreateEvents(nEvents) : MessageCreate(m)
    \/ \E m \in DiscordUpdateEvents : MessageUpdate(m)

Spec == Init /\ [][Next]_vars

(***************************************************************************)
(* The WebhookManager alone: Get step by step, for goroutines that call it *)
(* at the same time.                                                       *)
(***************************************************************************)
\* Get is entered (webhooks.go:46).
GetCall(c, channel, username) ==
    /\ ~crashed
    /\ get[c].pc \in {"idle", "returned"}
    /\ get[c].calls < MaxCallsPerCaller
    /\ get' = [get EXCEPT ![c] = [IdleFrame EXCEPT
                  !.pc = "lookup",
                  !.key = WebhookKey(channel, username),
                  !.calls = get[c].calls + 1]]
    /\ UNCHANGED <<webhooks, whFile, nWebhooks, crashed, whWriteFailed, notIdentity>>

\* webhooks.go:47-51
GetLookup(c) ==
    /\ ~crashed
    /\ get[c].pc = "lookup"
    /\ LET found == Lookup(webhooks, get[c].key)
       IN get' = [get EXCEPT ![c].webhook = found.webhook, ![c].ok = found.ok,
                             ![c].pc = IF found.ok THEN "return" ELSE "create"]
    /\ UNCHANGED <<webhooks, whFile, nWebhooks, crashed, whWriteFailed, notIdentity>>

\* webhookObj, err := m.dg.WebhookCreate(...); if err != nil { return "", "", err }
GetCreate(c) ==
    /\ ~crashed
    /\ get[c].pc = "create"
    /\ \/ /\ get' = [get EXCEPT ![c].pc = "store", ![c].webhook = Created(nWebhooks)]
          /\ nWebhooks' = nWebhooks + 1
       \/ /\ get' = [get EXCEPT ![c].pc = "returned", ![c].id = "",
                        ![c].token = "", ![c].err = TRUE]
          /\ UNCHANGED nWebhooks
    /\ UNCHANGED <<webhooks, whFile, crashed, whWriteFailed, notIdentity>>

\* Callers whose save() is reading m.webhooks, without the lock, right now.
Marshalling(c) == {d \in Callers \ {c} : get[d].pc = "marshalling"}

\* webhooks.go:58-60.  A save() of another goroutine that is iterating over
\* the map at this moment races with the write: the runtime may end the
\* process ("concurrent map iteration and map write"), or the iteration goes
\* on and yields the map from before or from after the write.
GetStore(c) ==
    /\ ~crashed
    /\ get[c].pc = "store"
    /\ webhooks' = Stored(webhooks, get[c].key, get[c].webhook)
    /\ IF Marshalling(c) = {}
       THEN /\ get' = [get EXCEPT ![c].pc = "save"]
            /\ UNCHANGED crashed
       ELSE \/ /\ crashed' = TRUE
               /\ UNCHANGED get
            \/ /\ UNCHANGED crashed
               /\ \E seen \in SUBSET Marshalling(c) :
                    get' = [d \in Callers |->
                              IF d = c THEN [get[d] EXCEPT !.pc = "save"]
                              ELSE IF d \in seen
                                   THEN [get[d] EXCEPT !.bytes = MarshalWebhooks(webhooks')]
                                   ELSE get[d]]
    /\ UNCHANGED <<whFile, nWebhooks, whWriteFailed, notIdentity>>

\* save(): bytes, err := json.Marshal(m.webhooks) starts reading the map
SaveMarshalBegin(c) ==
    /\ ~crashed
    /\ get[c].pc = "save"
    /\ get' = [get EXCEPT ![c].pc = "marshalling", ![c].bytes = MarshalWebhooks(webhooks)]
    /\ UNCHANGED <<webhooks, whFile, nWebhooks, crashed, whWriteFailed, notIdentity>>

\* save(): json.Marshal returns
SaveMarshalEnd(c) ==
    /\ ~crashed
    /\ get[c].pc = "marshalling"
    /\ get' = [get EXCEPT ![c].pc = "write"]
    /\ UNCHANGED <<webhooks, whFile, nWebhooks, crashed, whWriteFailed, notIdentity>>

\* save(): os.WriteFile; Get prints the error and goes on (webhooks.go:61-63)
SaveWrite(c) ==
    /\ ~crashed
    /\ get[c].pc = "write"
    /\ \E out \in Saved(whFile, get[c].bytes) :
         /\ whFile' = out.file
         /\ whWriteFailed' = (whWriteFailed \/ ~out.ok)
    /\ get' = [get EXCEPT ![c].pc = "return"]
    /\ UNCHANGED <<webhooks, nWebhooks, crashed, notIdentity>>

\* return webhook.ID, webhook.Token, nil
GetReturn(c) ==
    /\ ~crashed
    /\ get[c].pc = "return"
    /\ get' = [get EXCEPT ![c].pc = "returned", ![c].id = get[c].webhook.ID,
                          ![c].token = get[c].webhook.Token, ![c].err = FALSE]
    /\ UNCHANGED <<webhooks, whFile, nWebhooks, crashed, whWriteFailed, notIdentity>>

NextIdentity ==
    \E c \in Callers :
        \/ \E u \in Usernames \ {BotUsername} : GetCall(c, "c1", u)
        \/ GetLookup(c)
        \/ GetCreate(c)
        \/ GetStore(c)
        \/ SaveMarshalBegin(c)
        \/ SaveMarshalEnd(c)
        \/ SaveWrite(c)
        \/ GetReturn(c)

SpecIdentity == Init /\ [][NextIdentity]_vars

(***************************************************************************)
(* The MessageManager alone, with Add called on any identifiers.           *)
(***************************************************************************)
StoreMessages ==
    {MessageInfo(DiscordMessageIdOf(d), w[1], w[2], "r1", MatrixEventIdOf(m)) :
        d \in 1..NumStoreIds, m \in 1..NumStoreIds,
        w \in {<<"", "">>, <<WebhookIdOf(0), WebhookTokenOf(0)>>}}

StoreAdd(msg) ==
    /\ ~crashed
    /\ Add(msg)
    /\ last' = [NoEvent EXCEPT !.handler = "Add", !.add = msg]
    /\ UNCHANGED <<identityVars, get, crashed, nEvents, net>>

NextStore == \E msg \in StoreMessages : StoreAdd(msg)

SpecStore == Init /\ [][NextStore]_vars

(***************************************************************************)
(* Properties.  `last' holds the event handled last, the API calls its     *)
(* handler made and the record it passed to Add.                           *)
(***************************************************************************)
\* The calls of the last handler to one API.
CallsTo(api) == {i \in 1..Len(last.calls) : last.calls[i].api = api}

\* The calls of the last handler that send or edit something on Matrix.
MatrixSends ==
    {i \in 1..Len(last.calls) :
        last.calls[i].api \in {"SendFormattedText", "SendMessageEvent"}}

LastIsDiscordEvent == last.handler \in {"MessageCreate", "MessageUpdate"}

LastIsMatrixEvent == last.handler = "m.room.message"

\* Every record either index holds for the Matrix event ID o.
RecordsOf(o) ==
    {r \in MapValues(matrixToMessage) \cup MapValues(discordToMessage) : r.MatrixID = o}

\* C1 (loop prevention): a Discord event, create or update, whose author is
\* an ID for which Has returns true causes no call to Matrix.
C1_LoopPrevention ==
    (LastIsDiscordEvent /\ last.dev.hasAuthor /\ Has(webhooks, last.dev.AuthorID))
        => last.calls = <<>>

\* C2 as stated (edit correctness): a Matrix event that passes the filters and
\* declares m.replace of o1, recorded with (d1, cred1) by a relay to Discord,
\* causes exactly one call, a WebhookMessageEdit addressed to (cred1, d1).
C2_EditAsStated ==
    (LastIsMatrixEvent /\ ~MatrixFilter(last.mev) /\ IsReplace(last.mev))
        => \A r \in RecordsOf(last.mev.relatesTo) :
              r.WebhookID # ""
                  => \E ok \in BOOLEAN :
                        last.calls = <<DiscordCall("WebhookMessageEdit", r.WebhookID,
                                                   r.WebhookToken, r.DiscordID, ok)>>

\* C2 (edit correctness): a Matrix event that passes the filters, declares
\* m.replace of o1, recorded with (d1, cred1) by a relay to Discord, and
\* carries m.new_content causes exactly one call, a WebhookMessageEdit
\* addressed to (cred1, d1), and so no WebhookExecute.
C2_EditCorrectness ==
    (LastIsMatrixEvent /\ ~MatrixFilter(last.mev) /\ IsReplace(last.mev)
                       /\ last.mev.hasNewContent)
        => \A r \in RecordsOf(last.mev.relatesTo) :
              r.WebhookID # ""
                  => \E ok \in BOOLEAN :
                        last.calls = <<DiscordCall("WebhookMessageEdit", r.WebhookID,
                                                   r.WebhookToken, r.DiscordID, ok)>>

\* An edit of a message this run has relayed to Discord went out.
C2_Witness ==
    /\ LastIsMatrixEvent /\ ~MatrixFilter(last.mev) /\ IsReplace(last.mev)
    /\ last.mev.hasNewContent
    /\ last.mev.relatesTo = MatrixEventIdOf(1)
    /\ \E r \in RecordsOf(last.mev.relatesTo) :
          /\ r.WebhookID = WebhookIdOf(1)
          /\ last.calls = <<DiscordCall("WebhookMessageEdit", r.WebhookID,
                                        r.WebhookToken, r.DiscordID, TRUE)>>

\* C3 (unknown-edit safety): handling a Matrix event that declares m.replace
\* of an ID the MessageManager has no record for makes no call at all (no
\* send, no edit, no webhook creation), passes nothing to Add and leaves the
\* WebhookManager and the MessageManager as they were.
C3_UnknownEditSafety ==
    [][(/\ nEvents' # nEvents
        /\ last'.handler = "m.room.message"
        /\ IsReplace(last'.mev)
        /\ ~MapHas(matrixToMessage, last'.mev.relatesTo))
            => /\ last'.calls = <<>>
               /\ last'.add = NilMessage
               /\ ~last'.got
               /\ UNCHANGED <<identityVars, storeVars, crashed>>]_vars

\* An edit of an unknown message has passed the filters and was dropped.
C3_Witness ==
    /\ LastIsMatrixEvent /\ ~MatrixFilter(last.mev) /\ IsReplace(last.mev)
    /\ last.mev.hasNewContent
    /\ ~MapHas(matrixToMessage, last.mev.relatesTo)
    /\ RecordsOf(last.mev.relatesTo) = {}
    /\ last.calls = <<>>

\* What only the filters of the handler other than the timestamp decide.
OtherwiseRelayed(ev) ==
    /\ ev.Sender # BotUsername
    /\ StringAt(MatrixToDiscord, ev.RoomID) # ""

\* C4 (replay suppression): a Matrix event with a timestamp before startTime
\* reaches neither Get nor any send or edit, whatever its content, sender
\* and room; an event with timestamp startTime is not stopped by this rule:
\* if sender and room pass, a new message reaches Get and an edit of a
\* recorded message with m.new_content is sent.
C4_ReplaySuppression ==
    LastIsMatrixEvent =>
        /\ last.mev.Timestamp < StartTime
              => (last.calls = <<>> /\ ~last.got /\ last.add = NilMessage)
        /\ (last.mev.Timestamp = StartTime /\ OtherwiseRelayed(last.mev))
              => IF IsReplace(last.mev)
                 THEN (RecordsOf(last.mev.relatesTo) # {} /\ last.mev.hasNewContent)
                          => Len(last.calls) = 1
                 ELSE last.got

\* An event from before the start that would otherwise be relayed was ignored.
C4_Witness ==
    /\ LastIsMatrixEvent
    /\ last.mev.Timestamp < StartTime
    /\ OtherwiseRelayed(last.mev)
    /\ last.mev.msgtype = "m.text" /\ ~IsReplace(last.mev)
    /\ last.calls = <<>>

\* No call of Get is under way.
AllGetsCompleted == \A c \in Callers : get[c].pc \in {"idle", "returned"}

\* m is a map: it holds at most one value for the key.
AtMostOne(m, key) == Cardinality({e \in m : e[1] = key}) <= 1

C6_CorrelationSymmetry ==
    last.handler = "Add" =>
        LET o == last.add.MatrixID
            d == last.add.DiscordID
        IN /\ GetMatrix(o) # NilMessage
           /\ GetMatrix(o).MatrixID = o /\ GetMatrix(o).DiscordID = d
           /\ GetDiscord(d) # NilMessage
           /\ GetDiscord(d).MatrixID = o /\ GetDiscord(d).DiscordID = d

\* Add has replaced a record: the Discord ID was recorded before, with
\* another Matrix ID that is still in the other index.
C6_Witness ==
    /\ last.handler = "Add"
    /\ reused
    /\ GetDiscord(last.add.DiscordID) = last.add
    /\ \E e \in matrixToMessage :
          e[2].DiscordID = last.add.DiscordID /\ e[1] # last.add.MatrixID

\* The two indexes resolve every record from either of its IDs.
Symmetric ==
    /\ \A e \in matrixToMessage : GetDiscord(e[2].DiscordID) = e[2]
    /\ \A e \in discordToMessage : GetMatrix(e[2].MatrixID) = e[2]

\* C7 as stated (correlation invariant): after any sequence of Add calls,
\* including calls that reuse a recorded Matrix ID or Discord ID, every
\* record GetMatrix returns is the one GetDiscord returns for its Discord
\* ID, and every record GetDiscord returns is the one GetMatrix returns for
\* its Matrix ID.
C7_SymmetricAsStated == Symmetric

\* C7 (correlation invariant): after any sequence of Add calls none of which
\* reuses a recorded Matrix ID or Discord ID, every record GetMatrix returns
\* is the one GetDiscord returns for its Discord ID, and every record
\* GetDiscord returns is the one GetMatrix returns for its Matrix ID.
C7_SymmetricIfUnique == ~reused => Symmetric

\* Two records have been added in this run with IDs not used before.
C7_Witness ==
    /\ last.handler = "Add"
    /\ ~reused
    /\ Cardinality(matrixToMessage \ {e \in matrixToMessage :
                                          e[1] = MatrixEventIdOf(0)}) = 2
    /\ Cardinality(discordToMessage) = Cardinality(matrixToMessage)

\* C8 (round trip of identities): when pairs have got their webhooks through
\* Get and every write of the file has succeeded, a WebhookManager built
\* from the file returns from Get, for every pair in the running map, the
\* same ID and token, and requests no webhook.
C8_IdentityRoundTrip ==
    ~whWriteFailed =>
        LET reloaded == NewWebhookManager(whFile)
        IN /\ ~reloaded.err
           /\ \A channel \in Channels, username \in Usernames :
                 MapHas(webhooks, WebhookKey(channel, username)) =>
                     \A g \in Get(reloaded.webhooks, whFile, nWebhooks, FALSE,
                                  channel, username) :
                         /\ ~g.requested /\ ~g.err
                         /\ WebhookInfo(g.id, g.token)
                                = MapAt(webhooks, WebhookKey(channel, username))

\* On a first run two pairs have got webhooks and both writes succeeded.
C8_Witness ==
    /\ ~whWriteFailed
    /\ nWebhooks = 2
    /\ Cardinality(MapKeys(webhooks)) = 2
    /\ whFile.state = "valid"
    /\ ~Has(webhooks, WebhookIdOf(0))

HandledKinds == TextTypes \cup MediaTypes \cup {"m.file"}

\* C9 (new relay to Discord): for a Matrix event of a handled kind that is
\* no edit and passes the filters, a WebhookExecute that succeeds is followed
\* by Add of (Matrix ID of the event, ID of the Discord message, webhook
\* used, room), after which GetMatrix returns that record; when none
\* succeeds, nothing is passed to Add and WebhookExecute is called at most
\* once.
C9_RelayToDiscord ==
    (/\ LastIsMatrixEvent /\ ~MatrixFilter(last.mev) /\ ~IsReplace(last.mev)
     /\ last.mev.msgtype \in HandledKinds /\ ~crashed)
        => LET sent == {i \in CallsTo("WebhookExecute") : last.calls[i].ok}
           IN /\ \A i \in sent :
                    /\ last.add = MessageInfo(last.calls[i].message, last.calls[i].id,
                                              last.calls[i].token, last.mev.RoomID,
                                              last.mev.ID)
                    /\ GetMatrix(last.mev.ID) = last.add
              /\ sent = {} => (last.add = NilMessage
                               /\ Cardinality(CallsTo("WebhookExecute")) <= 1)

\* C10 (new relay to Matrix): for a Discord message that passes the filters,
\* when a send to Matrix (of the text or of attachments) has succeeded, Add
\* is called with the Discord message ID and a Matrix event ID; when none
\* has succeeded, nothing is passed to Add.
C10_RelayToMatrix ==
    (/\ last.handler = "MessageCreate"
     /\ last.dev.AuthorID # BotUserID /\ ~Has(webhooks, last.dev.AuthorID)
     /\ StringAt(Bridge, last.dev.ChannelID) # "" /\ ~crashed)
        => LET sent == {i \in MatrixSends : last.calls[i].ok}
           IN /\ sent # {} => (/\ last.add # NilMessage
                               /\ last.add.DiscordID = last.dev.ID
                               /\ last.add.MatrixID # ""
                               /\ GetDiscord(last.dev.ID) = last.add)
              /\ sent = {} => last.add = NilMessage

\* C11 (no edit path from Discord): a MessageUpdate event observed on Discord
\* never causes a call to Matrix, whatever the MessageManager holds.
C11_NoDiscordEditPath ==
    last.handler = "MessageUpdate" => last.calls = <<>>

\* The creation request of the handler step just taken has failed, so that
\* Get has returned an error.
GetFailed(calls) ==
    \E i \in 1..Len(calls) : calls[i].api = "WebhookCreate" /\ ~calls[i].ok

\* C13 (a failed Get drops the event): when Get returns an error while a
\* Matrix event that is no edit is handled, the handler calls neither
\* WebhookExecute nor WebhookMessageEdit, passes nothing to Add and leaves
\* the map of the WebhookManager as it was.
C13_GetErrorDropsEvent ==
    [][(/\ nEvents' # nEvents
        /\ last'.handler = "m.room.message"
        /\ ~IsReplace(last'.mev)
        /\ GetFailed(last'.calls))
            => /\ \A i \in 1..Len(last'.calls) :
                     last'.calls[i].api \notin {"WebhookExecute", "WebhookMessageEdit"}
               /\ last'.add = NilMessage
               /\ webhooks' = webhooks
               /\ UNCHANGED storeVars]_vars

\* C12 (identity stability): once the map of the WebhookManager holds a
\* credential for a (channel, sender) pair, the pair keeps exactly that
\* credential: no step of any Get call, in any interleaving, replaces or
\* removes it.
C12_IdentityStability ==
    [][\A e \in webhooks : e \in webhooks']_vars

\* The last event lacks a field its handler reads: a media or file message
\* without "info", an edit without "m.new_content", or an update from
\* Discord without an author.
LastIsMalformed ==
    \/ /\ LastIsMatrixEvent /\ ~MatrixFilter(last.mev) /\ ~IsReplace(last.mev)
       /\ last.mev.msgtype \in MediaTypes \cup {"m.file"}
       /\ ~last.mev.hasInfo
    \/ /\ LastIsMatrixEvent /\ ~MatrixFilter(last.mev) /\ IsReplace(last.mev)
       /\ ~last.mev.hasNewContent
    \/ /\ last.handler = "MessageUpdate"
       /\ ~last.dev.hasAuthor

\* The calls of the last handler that send or edit a message.
SendsAndEdits ==
    CallsTo("WebhookExecute") \cup CallsTo("WebhookMessageEdit") \cup MatrixSends

\* C14 (malformed events): an event that lacks an expected field is dropped:
\* its handler returns normally (no panic), and makes no send or edit call.
C14_MalformedDropped ==
    LastIsMalformed => (~crashed /\ SendsAndEdits = {} /\ last.add = NilMessage)

\* C15 (self-echo suppression): a Matrix event sent by config.Matrix.Username
\* and a MessageCreate event whose author is the bridge's own Discord user
\* are ignored: the handler does not call Get, makes no call, passes nothing
\* to Add, and both managers stay as they were.
C15_SelfEchoSuppression ==
    [][(/\ nEvents' # nEvents
        /\ \/ last'.handler = "m.room.message" /\ last'.mev.Sender = BotUsername
           \/ last'.handler = "MessageCreate" /\ last'.dev.AuthorID = BotUserID)
            => /\ last'.calls = <<>>
               /\ ~last'.got
               /\ last'.add = NilMessage
               /\ UNCHANGED <<identityVars, storeVars, crashed>>]_vars

\* A new text message of the bridge's own Matrix account, in a bridged room
\* and after the start, was ignored.
C15_Witness ==
    /\ LastIsMatrixEvent
    /\ last.mev.Sender = BotUsername
    /\ last.mev.Timestamp >= StartTime
    /\ StringAt(MatrixToDiscord, last.mev.RoomID) # ""
    /\ last.mev.msgtype = "m.text" /\ ~IsReplace(last.mev)
    /\ last.calls = <<>>
    /\ nEvents = 2

\* C16 (unmapped rooms and channels): an event, new message or edit, from a
\* Matrix room without a configured Discord channel or from a Discord
\* channel without a configured Matrix room causes no call and changes
\* neither the WebhookManager nor the MessageManager.
C16_UnmappedIgnored ==
    [][(/\ nEvents' # nEvents
        /\ \/ /\ last'.handler = "m.room.message"
              /\ StringAt(MatrixToDiscord, last'.mev.RoomID) = ""
           \/ /\ last'.handler \in {"MessageCreate", "MessageUpdate"}
              /\ StringAt(Bridge, last'.dev.ChannelID) = "")
            => /\ last'.calls = <<>>
               /\ UNCHANGED <<identityVars, storeVars>>]_vars

\* C18 (hit and miss of Get): called with no other Get beside it, Get for a
\* pair in the map returns the ID and token stored, requests no webhook and
\* changes nothing; Get for a pair not in the map requests exactly one
\* webhook and, when that succeeds, stores it under the pair, writes the
\* whole map to the file and returns the new ID and token; when it fails,
\* Get returns the error and changes nothing.
C18_GetHitAndMiss ==
    [][(nEvents' # nEvents /\ last'.got)
        => LET key == WebhookKey(StringAt(MatrixToDiscord, last'.mev.RoomID),
                                 last'.mev.Sender)
               creates == {i \in 1..Len(last'.calls) :
                              last'.calls[i].api = "WebhookCreate"}
           IN IF MapHas(webhooks, key)
              THEN /\ creates = {}
                   /\ last'.ret = [id |-> MapAt(webhooks, key).ID,
                                   token |-> MapAt(webhooks, key).Token,
                                   err |-> FALSE]
                   /\ UNCHANGED identityVars
              ELSE /\ Cardinality(creates) = 1
                   /\ \A i \in creates :
                        IF last'.calls[i].ok
                        THEN /\ ~last'.ret.err /\ last'.ret.id # ""
                             /\ webhooks' = webhooks \cup
                                  {<<key, WebhookInfo(last'.ret.id, last'.ret.token)>>}
                             /\ nWebhooks' = nWebhooks + 1
                             /\ \/ whFile' = ValidFile(MarshalWebhooks(webhooks'))
                                \/ whWriteFailed'
                        ELSE /\ last'.ret = [id |-> "", token |-> "", err |-> TRUE]
                             /\ UNCHANGED identityVars]_vars

\* On a first run a pair has got its webhook through a miss, and a later Get
\* for the same pair has returned it from the map.
C18_Witness ==
    /\ nEvents = 2
    /\ last.got
    /\ CallsTo("WebhookCreate") = {}
    /\ last.ret = [id |-> WebhookIdOf(1), token |-> WebhookTokenOf(1), err |-> FALSE]
    /\ nWebhooks = 1
    /\ whFile = ValidFile(MarshalWebhooks(webhooks))

\* The goroutine has assigned its entry to m.webhooks and its save() has not
\* yet written the file: the span the exclusive critical section of an
\* insert-and-persist would cover.
InsertingAndPersisting(c) == get[c].pc \in {"save", "marshalling", "write"}

\* C19 (lock discipline): the assignment to the map and the write of the
\* file happen in one exclusive critical section, so while a goroutine is
\* between its assignment and the end of its save(), serializing the map,
\* no goroutine changes the map (nor does the runtime detect a concurrent
\* map access and end the process).
C19_LockDiscipline ==
    [][(\E c \in Callers : InsertingAndPersisting(c))
          => (webhooks' = webhooks /\ crashed' = crashed)]_vars

(***************************************************************************)
(* The bridge between the two platforms: users author a bounded number of  *)
(* events, and every message or edit the bridge sends successfully comes   *)
(* back to it as an event of the platform it was sent to.                  *)
(***************************************************************************)
\* An event on its way to the handler registered for its kind.
Event(kind, mev, dev) == [kind |-> kind, mev |-> mev, dev |-> dev]

\* The handler registered for the event (main.go:182, 286, 365).
Run(e, n) ==
    CASE e.kind = "m.room.message" -> MatrixHandler(e.mev, n)
      [] e.kind = "MessageCreate"  -> DiscordCreate(e.dev, n)
      [] e.kind = "MessageUpdate"  -> DiscordUpdate(e.dev)

\* The Discord channel the event is in or is bridged to.
ChannelFor(e) ==
    IF e.kind = "m.room.message" THEN StringAt(MatrixToDiscord, e.mev.RoomID)
    ELSE e.dev.ChannelID

\* The event the platform delivers for the i-th call of the handler that ran
\* on the n+1st event.  Discord reports a message posted or edited through a
\* webhook with the webhook's ID as its author; Matrix reports what the
\* bridge sends with the bridge's account as its sender and the current
\* time, which is after startTime.
EchoOf(call, i, n, channel) ==
    LET posted == [NoDiscordEvent EXCEPT !.ID = call.message, !.hasAuthor = TRUE,
                                         !.AuthorID = call.id, !.ChannelID = channel,
                                         !.Content = "hi"]
        sent == [NoMatrixEvent EXCEPT
                    !.ID = IF i = 1 THEN SentEventIdOf(n + 1)
                           ELSE SentEventIdOf(n + 1) \o "a",
                    !.Timestamp = StartTime + 1, !.Sender = BotUsername,
                    !.RoomID = call.room]
    IN IF ~call.ok THEN {}
       ELSE CASE call.api = "WebhookExecute" ->
                   {Event("MessageCreate", NoMatrixEvent, posted)}
              [] call.api = "WebhookMessageEdit" ->
                   {Event("MessageUpdate", NoMatrixEvent, posted)}
              [] call.api = "SendFormattedText" ->
                   {Event("m.room.message", [sent EXCEPT !.msgtype = "m.text"],
                          NoDiscordEvent)}
              [] call.api = "SendMessageEvent" /\ call.relatesTo # "" ->
                   {Event("m.room.message",
                          [sent EXCEPT !.msgtype = "m.text", !.relType = "m.replace",
                                       !.relatesTo = call.relatesTo,
                                       !.hasNewContent = TRUE],
                          NoDiscordEvent)}
              [] call.api = "SendMessageEvent" /\ call.relatesTo = "" ->
                   {Event("m.room.message",
                          [sent EXCEPT !.msgtype = "m.file", !.hasInfo = TRUE],
                          NoDiscordEvent)}
              [] OTHER -> {}

\* The events that come back for the calls of a handler run.
Echoes(calls, n, channel) ==
    UNION {EchoOf(calls[i], i, n, channel) : i \in 1..Len(calls)}

\* The calls among them that send or edit a message.
SendCalls(calls) ==
    {i \in 1..Len(calls) :
        calls[i].api \in {"WebhookExecute", "WebhookMessageEdit",
                          "SendFormattedText", "SendMessageEvent"}}

\* The events users author when n events have been handled: well-formed
\* messages and edits on Matrix, messages and edits on Discord.
UserEvents(n) ==
    {Event("m.room.message", ev, NoDiscordEvent) :
        ev \in {x \in MatrixEvents(n) :
                   /\ x.Sender = "@alice" /\ x.Timestamp = StartTime
                   /\ x.msgtype \in {"m.text", "m.image"}
                   /\ x.msgtype = "m.image" => x.hasInfo
                   /\ IsReplace(x) => x.hasNewContent}}
    \cup {Event("MessageCreate", NoMatrixEvent, m) :
             m \in {x \in DiscordCreateEvents(n) :
                       x.AuthorID \in DiscordUsers /\ Len(x.Attachments) <= 1}}
    \cup {Event("MessageUpdate", NoMatrixEvent, m) :
             m \in {x \in DiscordUpdateEvents :
                       x.hasAuthor /\ x.AuthorID \in DiscordUsers}}

\* No behaviour of the bridge needs more handler runs than this: it bounds the
\* model, not the bridge.
EchoCap == 3 * MaxEvents + 2

\* The handler has run on e, which was in the inbox or comes from a user.
Relayed(e, byUser) ==
    /\ ~crashed
    /\ nEvents < EchoCap
    /\ \E r \in Run(e, nEvents) :
         /\ Handled(e.kind, e.mev, e.dev, r)
         /\ net' = [net EXCEPT
                       !.inbox = (@ \ {e}) \cup Echoes(r.calls, nEvents, ChannelFor(e)),
                       !.users = IF byUser THEN @ + 1 ELSE @,
                       !.sends = @ + Cardinality(SendCalls(r.calls))]

\* A user authors e and the bridge handles it.
UserEvent(e) ==
    /\ net.users < MaxEvents
    /\ Relayed(e, TRUE)

\* The bridge handles an event that one of its own calls has caused.
EchoEvent(e) ==
    /\ e \in net.inbox
    /\ Relayed(e, FALSE)

EchoDelivery == \E e \in net.inbox : EchoEvent(e)

NextEcho ==
    \/ \E e \in UserEvents(nEvents) : UserEvent(e)
    \/ EchoDelivery

\* Both platforms deliver every event in the end.
SpecEcho == Init /\ [][NextEcho]_vars /\ WF_vars(EchoDelivery)

\* C17 (no infinite relay loop): from finitely many events authored by users,
\* with every message the bridge sends coming back to it as an event, the
\* bridge makes only finitely many send and edit calls (at most two for
\* each user event) and, unless a panic has ended it, reaches a state from
\* which no event is left to handle.
C17_NoRelayLoop ==
    /\ [](net.sends <= 2 * net.users)
    /\ <>[](net.inbox = {} \/ crashed)

\* An edit on Matrix has gone to Discord, come back as a MessageUpdate, gone
\* to Matrix again as an edit by the bridge's account, and stopped there.
C17_Witness ==
    /\ LastIsMatrixEvent
    /\ last.mev.Sender = BotUsername /\ IsReplace(last.mev)
    /\ last.calls = <<>>
    /\ net.inbox = {}
    /\ net.sends = 2 * net.users
    /\ nEvents = 3 * net.users

(***************************************************************************)
(* The two streams: gomatrix runs the m.room.message handler in the one    *)
(* goroutine that syncs, discordgo runs every Discord handler in a         *)
(* goroutine of its own.  A call to Discord or Matrix may never return;    *)
(* the goroutine then stays in it, with the locks it holds at that point.  *)
(***************************************************************************)
\* A faulty Get that calls WebhookCreate inside its critical section (used
\* to test C20).
LocksHeldDuringCreateUnderLock(api) ==
    IF api = "WebhookCreate" THEN {"webhooks"} ELSE {}

\* The locks a goroutine holds while it is in the call: WebhookCreate comes
\* after m.lock.RUnlock() and before m.lock.Lock() (webhooks.go:49-58); the
\* handlers call the managers, which unlock before they return, and then
\* the APIs.
LocksHeldDuring(api) == {}

\* The locks the handler for events of this kind takes on its way: Get and
\* Has lock the WebhookManager, GetMatrix, GetDiscord and Add the
\* MessageManager.
LocksOf(kind) ==
    IF kind = "MessageUpdate" THEN {"messages"} ELSE {"webhooks", "messages"}

\* The locks held by goroutines stuck in a call.
HeldLocks == UNION {g.locks : g \in net.stalled}

\* The goroutine syncing with Matrix is stuck in a call.
MatrixStalled == \E g \in net.stalled : g.kind = "m.room.message"

\* Some goroutine handling a Discord event is stuck in a call.
DiscordStalled == \E g \in net.stalled : g.kind # "m.room.message"

\* The handler for e can run: its goroutine is free and so are its locks.
CanRun(e) ==
    /\ ~crashed
    /\ e \in net.inbox
    /\ e.kind = "m.room.message" => ~MatrixStalled
    /\ LocksOf(e.kind) \cap HeldLocks = {}

\* IDs the bridge gets from the platforms are numbered after those of the
\* events users author.
RunNumber == MaxEvents + nEvents

\* A user authors e; the platform will deliver it.
Arrive(e) ==
    /\ ~crashed
    /\ net.users < MaxEvents
    /\ net' = [net EXCEPT !.inbox = @ \cup {e}, !.users = @ + 1]
    /\ UNCHANGED <<identityVars, storeVars, get, crashed, nEvents, last>>

\* The handler runs on e from its first line to its return.
Deliver(e) ==
    /\ CanRun(e)
    /\ \E r \in Run(e, RunNumber) :
         /\ Handled(e.kind, e.mev, e.dev, r)
         /\ net' = [net EXCEPT !.inbox = @ \ {e},
                               !.sends = @ + Cardinality(SendCalls(r.calls))]

\* The handler runs on e up to its i-th call, which never returns.  What
\* Get has stored and saved before the call stays; Add comes after the
\* last call and is not reached.
Stall(e) ==
    /\ CanRun(e)
    /\ \E r \in Run(e, RunNumber) : \E i \in 1..Len(r.calls) :
         LET api == r.calls[i].api
             q == IF api = "WebhookCreate"
                  THEN Outcome(<<>>, NilMessage, FALSE) ELSE r
         IN /\ webhooks' = q.webhooks
            /\ whFile' = q.whFile
            /\ nWebhooks' = q.nWebhooks
            /\ whWriteFailed' = q.whWriteFailed
            /\ net' = [net EXCEPT
                          !.inbox = @ \ {e},
                          !.stalled = @ \cup {[kind |-> e.kind, api |-> api,
                                               locks |-> LocksHeldDuring(api)]}]
    /\ UNCHANGED <<storeVars, get, crashed, nEvents, last>>

\* The goroutine syncing with Matrix takes a step.
MatrixProgress ==
    \E e \in {x \in net.inbox : x.kind = "m.room.message"} : Deliver(e) \/ Stall(e)

\* A goroutine handling a Discord event takes a step.
DiscordProgress ==
    \E e \in {x \in net.inbox : x.kind # "m.room.message"} : Deliver(e) \/ Stall(e)

NextStreams ==
    \/ \E e \in UserEvents(net.users) : Arrive(e)
    \/ MatrixProgress
    \/ DiscordProgress

\* The Go scheduler runs every goroutine that can run.
SpecStreams ==
    Init /\ [][NextStreams]_vars /\ WF_vars(MatrixProgress) /\ WF_vars(DiscordProgress)

\* C20 (stream independence): while the Matrix stream is stuck in a call
\* that never returns, every Discord event is still handled in the end, and
\* while a Discord handler is stuck, every Matrix event is (as long as the
\* Matrix stream is not stuck itself and no panic has ended the process);
\* meanwhile the lock of the MessageManager is free for GetMatrix and
\* GetDiscord, and the records they have returned before stay in its maps.
C20_StreamIndependence ==
    /\ [](net.stalled # {} => "messages" \notin HeldLocks)
    /\ [][net.stalled # {} => /\ matrixToMessage \subseteq matrixToMessage'
                              /\ discordToMessage \subseteq discordToMessage']_vars
    /\ MatrixStalled
          ~> ({x \in net.inbox : x.kind # "m.room.message"} = {} \/ crashed)
    /\ DiscordStalled
          ~> ({x \in net.inbox : x.kind = "m.room.message"} = {}
                 \/ MatrixStalled \/ crashed)

\* The Matrix stream is stuck in WebhookExecute, and a message posted on
\* Discord after that has been relayed and recorded.
C20_Witness ==
    /\ MatrixStalled
    /\ \E g \in net.stalled : g.api = "WebhookExecute"
    /\ last.handler = "MessageCreate"
    /\ last.add # NilMessage
    /\ GetDiscord(last.dev.ID) = last.add
    /\ last.dev.ID = DiscordMessageIdOf(2)
    /\ net.inbox = {}

(***************************************************************************)
(* Reload: a MessageManager built from the file the running one has        *)
(* written.                                                                *)
(***************************************************************************)
\* msg := m[id] on a map of *MessageInfo: nil when the key is missing
Find(m, id) == IF MapHas(m, id) THEN MapAt(m, id) ELSE NilMessage

\* The identifiers either store can know, and one that neither does.
ReloadIds(maps) ==
    MapKeys(matrixToMessage) \cup MapKeys(discordToMessage)
        \cup MapKeys(maps.matrixToMessage) \cup MapKeys(maps.discordToMessage)
        \cup {"none"}

\* Every manager NewMessageManager can build from the file answers GetMatrix
\* and GetDiscord as the running one does.
ReloadAgrees ==
    /\ NewMessageManager(msgFile) # {}
    /\ \A maps \in NewMessageManager(msgFile) : \A id \in ReloadIds(maps) :
          /\ Find(maps.matrixToMessage, id) = GetMatrix(id)
          /\ Find(maps.discordToMessage, id) = GetDiscord(id)

\* C21 as stated (reload equivalence): after any sequence of Add calls whose
\* writes of the file have succeeded, a MessageManager built from the file
\* returns from GetMatrix and GetDiscord, for every identifier, the record
\* the running one returns.
C21_ReloadAsStated == ~msgWriteFailed => ReloadAgrees

\* C21 (reload equivalence): after any sequence of Add calls none of which
\* reuses a recorded Matrix ID or Discord ID and whose writes of the file
\* have succeeded, a MessageManager built from the file returns from
\* GetMatrix and GetDiscord, for every identifier, the record the running
\* one returns.
C21_ReloadIfUnique == (~msgWriteFailed /\ ~reused) => ReloadAgrees

\* Two records with fresh IDs have been added, every write has succeeded,
\* and the file holds them beside the record of an earlier run.
C21_Witness ==
    /\ last.handler = "Add"
    /\ ~msgWriteFailed /\ ~reused
    /\ Cardinality(discordToMessage) = 3
    /\ msgFile = ValidFile(MarshalMessages(discordToMessage))
    /\ \A maps \in NewMessageManager(msgFile) :
          Find(maps.matrixToMessage, last.add.MatrixID) = last.add

(***************************************************************************)
(* Edits from Matrix.                                                      *)
(***************************************************************************)
\* C22 (edit relays leave the stores unchanged): handling a Matrix event
\* that declares m.replace, whether the edit call succeeds or fails, the
\* message is unknown or the event is filtered out, requests no webhook,
\* does not call Get, passes nothing to Add and leaves the map and file of
\* the WebhookManager and both maps and the file of the MessageManager as
\* they were.
C22_EditLeavesStores ==
    [][(/\ nEvents' # nEvents
        /\ last'.handler = "m.room.message"
        /\ IsReplace(last'.mev))
            => /\ \A i \in 1..Len(last'.calls) : last'.calls[i].api # "WebhookCreate"
               /\ ~last'.got
               /\ last'.add = NilMessage
               /\ UNCHANGED <<identityVars, storeVars>>]_vars

\* On a first run a message was relayed to Discord and recorded, and an edit
\* of it was then sent to Discord with success.
C22_Witness ==
    /\ nEvents = 2
    /\ LastIsMatrixEvent /\ IsReplace(last.mev)
    /\ last.mev.relatesTo = MatrixEventIdOf(1)
    /\ Len(last.calls) = 1
    /\ last.calls[1].api = "WebhookMessageEdit" /\ last.calls[1].ok
    /\ last.calls[1].message = DiscordMessageIdOf(1)
    /\ Cardinality(matrixToMessage) = 1
    /\ msgFile = ValidFile(MarshalMessages(discordToMessage))

(***************************************************************************)
(* Attachments from Discord.                                               *)
(***************************************************************************)
\* The upload of the last handler has failed.
UploadFailed ==
    \E i \in CallsTo("UploadLink") : ~last.calls[i].ok

\* C23 (a failed upload drops the event safely): when a Discord message with
\* exactly one attachment of at most 64 KiB is handled and the upload to
\* Matrix fails, the handler returns normally (no panic) and sends no
\* attachment message.
C23_UploadFailureSafe ==
    (/\ last.handler = "MessageCreate"
     /\ Len(last.dev.Attachments) = 1
     /\ last.dev.Attachments[1].Size <= AttachmentLimit
     /\ UploadFailed)
        => /\ ~crashed
           /\ CallsTo("SendMessageEvent") = {}

(***************************************************************************)
(* Concurrent calls of Get.                                                *)
(***************************************************************************)
\* C24 (owned identities stay recognized): an ID that Get has returned to a
\* caller is recognized by Has from the return on, whatever other calls of
\* Get run beside it or after it.
C24_ReturnedIdRecognized ==
    \A c \in Callers :
        (get[c].pc = "returned" /\ ~get[c].err) => Has(webhooks, get[c].id)

\* Every goroutine has made one call of Get, each for a pair of its own that
\* was not in the map, and all have returned a new webhook.
DistinctMissesCompleted ==
    /\ \A c \in Callers :
          /\ get[c].pc = "returned" /\ get[c].calls = 1
          /\ ~get[c].ok /\ ~get[c].err
    /\ \A c, d \in Callers : c # d => get[c].key # get[d].key

\* C25 (no lost persistence update): when calls of Get for distinct pairs
\* not in the map, running at the same time, have all completed and every
\* write of the file has succeeded, the file holds exactly the entries of
\* the map.
C25_NoLostUpdate ==
    (DistinctMissesCompleted /\ ~whWriteFailed /\ ~crashed)
        => /\ whFile.state = "valid"
           /\ UnmarshalWebhooks(whFile.data) = webhooks

(***************************************************************************)
(* Who may edit, and with which credential.                                *)
(***************************************************************************)
\* The webhook the WebhookManager holds for the sender of the last Matrix
\* event in the channel its room is bridged to, if any.
WebhookOfSender ==
    Lookup(webhooks, WebhookKey(StringAt(MatrixToDiscord, last.mev.RoomID),
                                last.mev.Sender))

\* C26 (edit authorization): a Matrix edit event causes an edit call on a
\* Discord message that was relayed from Matrix only if its sender is the
\* sender of the message relayed: the call goes out through the webhook of
\* the sender of the edit event.
C26_EditAuthorization ==
    (LastIsMatrixEvent /\ IsReplace(last.mev)) =>
        \A i \in CallsTo("WebhookMessageEdit") :
            last.calls[i].id # ""
                => /\ WebhookOfSender.ok
                   /\ WebhookOfSender.webhook.ID = last.calls[i].id

\* C27 (edits carry a real credential): every WebhookMessageEdit call is
\* addressed with a non-empty webhook ID and token that the WebhookManager
\* holds; so an edit event that refers to a message relayed from Discord to
\* Matrix, recorded with the empty credential, causes no edit call.
C27_EditCredential ==
    \A i \in CallsTo("WebhookMessageEdit") :
        /\ last.calls[i].id # "" /\ last.calls[i].token # ""
        /\ \E e \in webhooks :
              e[2] = WebhookInfo(last.calls[i].id, last.calls[i].token)

====
